---- MODULE Spec2Model ----
(***************************************************************************)
(* Statement lowering of go-mlog (transpiler/statement.go): the recursive  *)
(* translation of Go statements into a flat list of MLOG instructions with *)
(* symbolic jump targets, the assignment of line addresses to the rows of  *)
(* that list, and the execution of the rows on the line-addressed jump     *)
(* machine the instructions are written for.                               *)
(***************************************************************************)
EXTENDS Integers, Sequences, FiniteSets, TLC

\* Longest statement list of the blocks that are enumerated as inputs.
MaxBlockLen == 2
\* Largest value a variable holds before the program starts.
MaxVal == 2
\* Longest execution that is followed on the jump machine.
MaxSteps == 10

(***************************************************************************)
(* The syntax tree (go/ast).  A node is a record whose type field is the   *)
(* name of the Go node type; the nil statement or expression is Nil.       *)
(***************************************************************************)
Nil == [type |-> "nil"]

Ident(name) == [type |-> "Ident", Name |-> name]
BasicLit(value) == [type |-> "BasicLit", Value |-> value]
BinaryExpr(x, op, y) == [type |-> "BinaryExpr", X |-> x, Op |-> op, Y |-> y]
CallExpr == [type |-> "CallExpr"]
IndexExpr == [type |-> "IndexExpr"]

BlockStmt(list) == [type |-> "BlockStmt", List |-> list]
ExprStmt(x) == [type |-> "ExprStmt", X |-> x]
IncDecStmt(x, tok) == [type |-> "IncDecStmt", X |-> x, Tok |-> tok]
AssignStmt(lhs, tok, rhs) == [type |-> "AssignStmt", Lhs |-> lhs, Tok |-> tok, Rhs |-> rhs]
ReturnStmt(results) == [type |-> "ReturnStmt", Results |-> results]
IfStmt(init, cond, body, else) ==
    [type |-> "IfStmt", Init |-> init, Cond |-> cond, Body |-> body, Else |-> else]
ForStmt(init, cond, post, body) ==
    [type |-> "ForStmt", Init |-> init, Cond |-> cond, Post |-> post, Body |-> body]
\* A statement kind the switch has no case for (go, defer, switch, ...).
GoStmt == [type |-> "GoStmt"]

(***************************************************************************)
(* Operands (Resolvable).  A compiler temporary is identified by the place *)
(* of the syntax tree that allocated it.                                   *)
(***************************************************************************)
Value(v) == [t |-> "Value", name |-> v, id |-> <<>>]
NormalVariable(name) == [t |-> "NormalVariable", name |-> name, id |-> <<>>]
DynamicVariable(id) == [t |-> "DynamicVariable", name |-> "", id |-> id]

FunctionReturnVariable == "@return"

(***************************************************************************)
(* Instructions (MLOGStatement).  Go identifies an instruction by its      *)
(* pointer; here the identity is the path of the syntax node that          *)
(* allocated it followed by the number of the allocation site.             *)
(***************************************************************************)
StatementJumpTarget(statementId, after) == [Statement |-> statementId, After |-> after]
NoTarget == StatementJumpTarget(<<>>, FALSE)

MLOG(id, comment, rows) ==
    [id |-> id, kind |-> "MLOG", Comment |-> comment, Statement |-> rows,
     Condition |-> <<>>, JumpTarget |-> NoTarget]
MLOGJump(id, comment, condition, target) ==
    [id |-> id, kind |-> "MLOGJump", Comment |-> comment, Statement |-> <<>>,
     Condition |-> condition, JumpTarget |-> target]
MLOGTrampolineBack(id) ==
    [id |-> id, kind |-> "MLOGTrampolineBack", Comment |-> "", Statement |-> <<>>,
     Condition |-> <<>>, JumpTarget |-> NoTarget]

(***************************************************************************)
(* What a lowering call ends in: ([]MLOGStatement, nil), (nil, err), or a  *)
(* run-time panic that unwinds the whole lowering.  lowered is the set of  *)
(* syntax-tree paths statementToMLOG was entered on (a history of the      *)
(* traversal, not a Go value).                                             *)
(***************************************************************************)
Ok(instrs, lowered) == [kind |-> "ok", err |-> "", instrs |-> instrs, lowered |-> lowered]
Error(msg, lowered) == [kind |-> "error", err |-> msg, instrs |-> <<>>, lowered |-> lowered]
Panic(msg, lowered) == [kind |-> "panic", err |-> msg, instrs |-> <<>>, lowered |-> lowered]

\* `if err != nil { return nil, err }`: the callee's failure, unchanged.
ReturnErr(r, lowered) == [r EXCEPT !.instrs = <<>>, !.lowered = lowered \cup r.lowered]

(***************************************************************************)
(* Expression lowering, an external collaborator of the statement          *)
(* lowering: given destination operands and an expression it returns an    *)
(* instruction list or an error.                                           *)
(***************************************************************************)
binaryOperators ==
    [op \in {"+", "-", "<", "=="} |->
        CASE op = "+" -> "add" [] op = "-" -> "sub"
          [] op = "<" -> "lessThan" [] op = "==" -> "equal"]

IsSimple(expr) == expr.type \in {"Ident", "BasicLit"}
SimpleOperand(expr) ==
    IF expr.type = "Ident" THEN NormalVariable(expr.Name) ELSE Value(expr.Value)

expressionToMLOG(ident, expr, path) ==
    CASE IsSimple(expr) ->
            IF Len(ident) = 1
            THEN Ok(<<MLOG(path \o <<0>>, "Set the variable to the value",
                           <<<<Value("set"), ident[1], SimpleOperand(expr)>>>>)>>, {})
            ELSE Error("mismatched expression destinations", {})
      [] expr.type = "BinaryExpr" ->
            IF Len(ident) = 1 /\ expr.Op \in DOMAIN binaryOperators
               /\ IsSimple(expr.X) /\ IsSimple(expr.Y)
            THEN Ok(<<MLOG(path \o <<0>>, "Execute operation",
                           <<<<Value("op"), Value(binaryOperators[expr.Op]), ident[1],
                               SimpleOperand(expr.X), SimpleOperand(expr.Y)>>>>)>>, {})
            ELSE Error("unsupported binary expression", {})
      [] expr.type = "CallExpr" ->
            Ok(<<MLOG(path \o <<0>>, "Call to function",
                      <<<<Value("call")>>, <<Value("read")>> \o ident>>)>>, {})
      [] OTHER -> Error("expression type not supported", {})

(***************************************************************************)
(* statementToMLOG, case by case.                                          *)
(***************************************************************************)
RECURSIVE statementToMLOG(_, _)
RECURSIVE blockToMLOG(_, _, _, _)
RECURSIVE assignPairsToMLOG(_, _, _, _)

\* The operator-to-jump-condition table.
jumpOperators ==
    [op \in {"==", "!=", "<", "<=", ">", ">="} |->
        CASE op = "==" -> "equal" [] op = "!=" -> "notEqual"
          [] op = "<" -> "lessThan" [] op = "<=" -> "lessThanEq"
          [] op = ">" -> "greaterThan" [] op = ">=" -> "greaterThanEq"]

\* A slip: the guard tests for a missing body, not for an empty one.
ForIsOmittedNilBody(forStatement) == forStatement.Body = Nil

\* case *ast.ForStmt: the body is empty, nothing at all is emitted.
ForIsOmitted(forStatement) == Len(forStatement.Body.List) = 0

\* A slip: the final else of the operand test is missing.
ForSideUnchecked(expr, side) ==
    IF expr.type = "BasicLit" THEN [kind |-> "ok", err |-> "", operand |-> Value(expr.Value)]
    ELSE IF expr.type = "Ident"
    THEN [kind |-> "ok", err |-> "", operand |-> NormalVariable(expr.Name)]
    ELSE [kind |-> "ok", err |-> "", operand |-> Value("")]

\* One side of the loop condition: a literal or an identifier, or an error.
ForSide(expr, side) ==
    IF expr.type = "BasicLit" THEN [kind |-> "ok", err |-> "", operand |-> Value(expr.Value)]
    ELSE IF expr.type = "Ident"
    THEN [kind |-> "ok", err |-> "", operand |-> NormalVariable(expr.Name)]
    ELSE [kind |-> "error", err |-> "unknown " \o side \o " side expression type",
          operand |-> Value("")]

\* The condition of loopStartJump, or the error the loop condition ends in.
ForCondition(cond) ==
    IF cond.type = "BinaryExpr"
    THEN IF cond.Op \in DOMAIN jumpOperators
         THEN LET leftSide == ForSide(cond.X, "left")
                  rightSide == ForSide(cond.Y, "right")
              IN  IF leftSide.kind # "ok"
                  THEN [kind |-> "error", err |-> leftSide.err, Condition |-> <<>>]
                  ELSE IF rightSide.kind # "ok"
                  THEN [kind |-> "error", err |-> rightSide.err, Condition |-> <<>>]
                  ELSE [kind |-> "ok", err |-> "",
                        Condition |-> <<Value(jumpOperators[cond.Op]),
                                        leftSide.operand, rightSide.operand>>]
         ELSE [kind |-> "error", err |-> "jump statement cannot use this operation",
               Condition |-> <<>>]
    ELSE [kind |-> "error", err |-> "for loop can only have binary conditional expressions",
          Condition |-> <<>>]

\* A slip: the jump goes back to the first instruction of the whole loop.
ForJumpTargetLoopStart(initMlog, bodyMLOG) ==
    StatementJumpTarget((initMlog \o bodyMLOG)[1].id, FALSE)

\* loopStartJump.JumpTarget = bodyMLOG[0]
ForJumpTarget(initMlog, bodyMLOG) == StatementJumpTarget(bodyMLOG[1].id, FALSE)

\* The instruction list of a loop whose parts were all lowered.
ForResults(initMlog, bodyMLOG, instructions, loopStartJump) ==
    initMlog \o bodyMLOG \o instructions \o <<loopStartJump>>

forToMLOG(forStatement, path) ==
    IF ForIsOmitted(forStatement) THEN Ok(<<>>, {path})
    ELSE
    LET initMlog == statementToMLOG(forStatement.Init, path \o <<1>>) IN
    IF initMlog.kind # "ok" THEN ReturnErr(initMlog, {path})
    ELSE
    LET cond == ForCondition(forStatement.Cond)
        seen1 == {path} \cup initMlog.lowered
    IN
    IF cond.kind # "ok" THEN Error(cond.err, seen1)
    ELSE
    LET bodyMLOG == statementToMLOG(forStatement.Body, path \o <<2>>) IN
    IF bodyMLOG.kind # "ok" THEN ReturnErr(bodyMLOG, seen1)
    ELSE
    LET instructions == statementToMLOG(forStatement.Post, path \o <<3>>)
        seen2 == seen1 \cup bodyMLOG.lowered
    IN
    IF instructions.kind # "ok" THEN ReturnErr(instructions, seen2)
    ELSE IF Len(bodyMLOG.instrs) = 0
    THEN Panic("index out of range [0] with length 0", seen2 \cup instructions.lowered)
    ELSE Ok(ForResults(initMlog.instrs, bodyMLOG.instrs, instructions.instrs,
                       MLOGJump(path \o <<4>>, "Jump to start of loop", cond.Condition,
                                ForJumpTarget(initMlog.instrs, bodyMLOG.instrs))),
            seen2 \cup instructions.lowered)

\* case *ast.IfStmt: the three jump targets.
IfBlockTarget(blockInstructions) == StatementJumpTarget(blockInstructions[1].id, FALSE)
\* A slip: the After flag is not set.
AfterIfTargetNoAfter(blockInstructions) ==
    StatementJumpTarget(blockInstructions[Len(blockInstructions)].id, FALSE)
AfterIfTarget(blockInstructions) ==
    StatementJumpTarget(blockInstructions[Len(blockInstructions)].id, TRUE)
AfterElseTarget(elseInstructions) ==
    StatementJumpTarget(elseInstructions[Len(elseInstructions)].id, TRUE)
\* A slip: the skip jump is not retargeted when there is an else.
RetargetForgotten(afterIfTarget, afterElseJump) == afterIfTarget
\* afterIfTarget.Statement = afterElseJump
Retarget(afterIfTarget, afterElseJump) == [afterIfTarget EXCEPT !.Statement = afterElseJump.id]

\* A slip: the skip jump is appended after the block.
IfResultsJumpLast(results, jumpIf, jumpAfter, blockInstructions) ==
    results \o <<jumpIf>> \o blockInstructions \o <<jumpAfter>>
\* A slip: afterElseJump is created and referenced but never appended.
IfElseResultsNoJump(results, jumpIf, jumpAfter, blockInstructions, afterElseJump, elseInstructions) ==
    results \o <<jumpIf, jumpAfter>> \o blockInstructions \o elseInstructions

\* The instruction list of a conditional without and with an else branch.
IfResults(results, jumpIf, jumpAfter, blockInstructions) ==
    results \o <<jumpIf, jumpAfter>> \o blockInstructions
IfElseResults(results, jumpIf, jumpAfter, blockInstructions, afterElseJump, elseInstructions) ==
    results \o <<jumpIf, jumpAfter>> \o blockInstructions \o <<afterElseJump>> \o elseInstructions

ifToMLOG(ifStmt, path) ==
    LET init == IF ifStmt.Init # Nil THEN statementToMLOG(ifStmt.Init, path \o <<1>>)
                ELSE Ok(<<>>, {})
    IN
    IF init.kind # "ok" THEN ReturnErr(init, {path})
    ELSE
    LET isIdent == ifStmt.Cond.type = "Ident"
        condVar == IF isIdent THEN NormalVariable(ifStmt.Cond.Name)
                   ELSE DynamicVariable(path \o <<2>>)
        condInstructions == IF isIdent THEN Ok(<<>>, {})
                            ELSE expressionToMLOG(<<condVar>>, ifStmt.Cond, path \o <<2>>)
        seen1 == {path} \cup init.lowered
    IN
    IF condInstructions.kind # "ok" THEN ReturnErr(condInstructions, seen1)
    ELSE
    LET block == statementToMLOG(ifStmt.Body, path \o <<3>>) IN
    IF block.kind # "ok" THEN ReturnErr(block, seen1)
    ELSE
    LET seen2 == seen1 \cup block.lowered
        results == init.instrs \o condInstructions.instrs
    IN
    IF Len(block.instrs) = 0 THEN Panic("index out of range [0] with length 0", seen2)
    ELSE
    LET jumpIf == MLOGJump(path \o <<5>>, "Jump to if block if true",
                           <<Value("equal"), condVar, Value("1")>>,
                           IfBlockTarget(block.instrs))
        afterIfTarget == AfterIfTarget(block.instrs)
    IN
    IF ifStmt.Else = Nil
    THEN Ok(IfResults(results, jumpIf,
                      MLOGJump(path \o <<6>>, "Jump to after if block",
                               <<Value("always")>>, afterIfTarget),
                      block.instrs), seen2)
    ELSE
    LET else == statementToMLOG(ifStmt.Else, path \o <<4>>) IN
    IF else.kind # "ok" THEN ReturnErr(else, seen2)
    ELSE IF Len(else.instrs) = 0
    THEN Panic("index out of range [-1]", seen2 \cup else.lowered)
    ELSE
    LET afterElseJump == MLOGJump(path \o <<7>>, "Jump to after else block",
                                  <<Value("always")>>, AfterElseTarget(else.instrs))
    IN Ok(IfElseResults(results, jumpIf,
                        MLOGJump(path \o <<6>>, "Jump to after if block",
                                 <<Value("always")>>, Retarget(afterIfTarget, afterElseJump)),
                        block.instrs, afterElseJump, else.instrs),
          seen2 \cup else.lowered)

\* case *ast.ReturnStmt
returnToMLOG(returnStmt, path) ==
    IF Len(returnStmt.Results) > 1
    THEN Error("only single value returns are supported", {path})
    ELSE IF Len(returnStmt.Results) > 0
    THEN LET returnValue == returnStmt.Results[1]
             dVar == DynamicVariable(path \o <<1>>)
             computed == IF IsSimple(returnValue) THEN Ok(<<>>, {})
                         ELSE expressionToMLOG(<<dVar>>, returnValue, path \o <<1>>)
             resultVar == IF IsSimple(returnValue) THEN SimpleOperand(returnValue) ELSE dVar
         IN  IF computed.kind # "ok" THEN ReturnErr(computed, {path})
             ELSE Ok(computed.instrs
                     \o <<MLOG(path \o <<2>>, "Set return data",
                               <<<<Value("set"), Value(FunctionReturnVariable), resultVar>>>>),
                          MLOGTrampolineBack(path \o <<3>>)>>, {path})
    ELSE Ok(<<MLOGTrampolineBack(path \o <<3>>)>>, {path})

\* A slip: a statement that fails is skipped and the loop goes on.
blockToMLOGContinue(blockStmt, i, path, acc) ==
    IF i > Len(blockStmt.List) THEN acc
    ELSE LET instructions == statementToMLOG(blockStmt.List[i], path \o <<i>>) IN
         IF instructions.kind # "ok"
         THEN blockToMLOG(blockStmt, i + 1, path,
                          Ok(acc.instrs, acc.lowered \cup instructions.lowered))
         ELSE blockToMLOG(blockStmt, i + 1, path,
                          Ok(acc.instrs \o instructions.instrs,
                             acc.lowered \cup instructions.lowered))

\* case *ast.BlockStmt: the loop over blockStmt.List from statement i on.
blockToMLOG(blockStmt, i, path, acc) ==
    IF i > Len(blockStmt.List) THEN acc
    ELSE LET instructions == statementToMLOG(blockStmt.List[i], path \o <<i>>) IN
         IF instructions.kind # "ok" THEN ReturnErr(instructions, acc.lowered)
         ELSE blockToMLOG(blockStmt, i + 1, path,
                          Ok(acc.instrs \o instructions.instrs,
                             acc.lowered \cup instructions.lowered))

\* case *ast.IncDecStmt
incDecToMLOG(incDecStatement, path) ==
    IF incDecStatement.X.type # "Ident"
    THEN Panic("interface conversion: ast.Expr is not *ast.Ident", {path})
    ELSE LET name == NormalVariable(incDecStatement.X.Name)
             op == IF incDecStatement.Tok = "--" THEN "sub" ELSE "add"
         IN  Ok(<<MLOG(path \o <<1>>, "Execute for loop post condition increment/decrement",
                       <<<<Value("op"), Value(op), name, name, Value("1")>>>>)>>, {path})

\* assignStmtToMLOG: the loop over the pairs of an N-to-N assignment.
assignPairsToMLOG(statement, i, path, mlog) ==
    IF i > Len(statement.Lhs) THEN Ok(mlog, {path})
    ELSE IF statement.Lhs[i].type = "Ident"
    THEN IF statement.Tok # "=" /\ statement.Tok # ":="
         THEN Error("only direct assignment is supported", {path})
         ELSE LET exprMLOG == expressionToMLOG(<<NormalVariable(statement.Lhs[i].Name)>>,
                                               statement.Rhs[i], path \o <<i>>)
              IN  IF exprMLOG.kind # "ok" THEN ReturnErr(exprMLOG, {path})
                  ELSE assignPairsToMLOG(statement, i + 1, path, mlog \o exprMLOG.instrs)
    ELSE Error("left side variable assignment can only contain identifications", {path})

assignStmtToMLOG(statement, path) ==
    IF Len(statement.Lhs) # Len(statement.Rhs)
    THEN IF Len(statement.Rhs) = 1
         THEN IF \E i \in 1..Len(statement.Lhs) : statement.Lhs[i].type # "Ident"
              THEN Panic("interface conversion: ast.Expr is not *ast.Ident", {path})
              ELSE LET leftSide == [i \in 1..Len(statement.Lhs) |->
                                        NormalVariable(statement.Lhs[i].Name)]
                       exprMLOG == expressionToMLOG(leftSide, statement.Rhs[1], path \o <<1>>)
                   IN  IF exprMLOG.kind # "ok" THEN ReturnErr(exprMLOG, {path})
                       ELSE Ok(exprMLOG.instrs, {path})
         ELSE Error("mismatched variable assignment sides", {path})
    ELSE assignPairsToMLOG(statement, 1, path, <<>>)

statementToMLOG(statement, path) ==
    CASE statement.type = "ForStmt" -> forToMLOG(statement, path)
      [] statement.type = "ExprStmt" ->
            LET instructions == expressionToMLOG(<<>>, statement.X, path \o <<1>>)
            IN  IF instructions.kind # "ok" THEN ReturnErr(instructions, {path})
                ELSE Ok(instructions.instrs, {path})
      [] statement.type = "IfStmt" -> ifToMLOG(statement, path)
      [] statement.type = "AssignStmt" -> assignStmtToMLOG(statement, path)
      [] statement.type = "ReturnStmt" -> returnToMLOG(statement, path)
      [] statement.type = "BlockStmt" -> blockToMLOG(statement, 1, path, Ok(<<>>, {path}))
      [] statement.type = "IncDecStmt" -> incDecToMLOG(statement, path)
      [] OTHER -> Error("statement type not supported", {path})

(***************************************************************************)
(* Linearization: every physical row gets the next address, starting at 0; *)
(* a jump target resolves to the address of the first row of the           *)
(* instruction it references, or to one past its last row (After).         *)
(***************************************************************************)
Size(instr) == IF instr.kind = "MLOG" THEN Len(instr.Statement) ELSE 1

RECURSIVE TotalSize(_)
TotalSize(instrs) ==
    IF instrs = <<>> THEN 0 ELSE Size(Head(instrs)) + TotalSize(Tail(instrs))

\* The address of the first row of the i-th instruction of the list.
GetPosition(instrs, i) == TotalSize(SubSeq(instrs, 1, i - 1))

\* The places of the list that hold the instruction with this identity.
Holders(instrs, id) == {i \in 1..Len(instrs) : instrs[i].id = id}

\* A target that references no instruction of the list has no address.
Dangling == -1

Resolve(instrs, target) ==
    IF Holders(instrs, target.Statement) = {} THEN Dangling
    ELSE LET i == CHOOSE k \in Holders(instrs, target.Statement) : TRUE
         IN  GetPosition(instrs, i) + (IF target.After THEN Size(instrs[i]) ELSE 0)

\* The rows one instruction contributes.
RowsOf(instrs, i) ==
    LET instr == instrs[i] IN
    IF instr.kind = "MLOG"
    THEN [r \in 1..Len(instr.Statement) |->
            [kind |-> "MLOG", op |-> instr.Statement[r], target |-> Dangling,
             owner |-> instr.id, comment |-> instr.Comment]]
    ELSE IF instr.kind = "MLOGJump"
    THEN <<[kind |-> "MLOGJump", op |-> instr.Condition,
            target |-> Resolve(instrs, instr.JumpTarget), owner |-> instr.id,
            comment |-> instr.Comment]>>
    ELSE <<[kind |-> instr.kind, op |-> <<>>, target |-> Dangling, owner |-> instr.id,
            comment |-> instr.Comment]>>

RECURSIVE LinearizeFrom(_, _)
LinearizeFrom(instrs, i) ==
    IF i > Len(instrs) THEN <<>> ELSE RowsOf(instrs, i) \o LinearizeFrom(instrs, i + 1)

\* The program: row k + 1 of the sequence is the row at address k.
Linearize(instrs) == LinearizeFrom(instrs, 1)

(***************************************************************************)
(* The jump machine: a memory of variables, a program counter, rows        *)
(* executed one after another, jumps to absolute addresses.                *)
(***************************************************************************)
ParseValue(text) ==
    CASE text = "0" -> 0 [] text = "1" -> 1 [] text = "2" -> 2 [] text = "3" -> 3
      [] OTHER -> 0

Read(memory, operand) ==
    IF operand.t = "Value" THEN ParseValue(operand.name) ELSE memory[operand]

BoolValue(b) == IF b THEN 1 ELSE 0

Compare(op, a, b) ==
    CASE op = "equal" -> a = b [] op = "notEqual" -> a # b
      [] op = "lessThan" -> a < b [] op = "lessThanEq" -> a <= b
      [] op = "greaterThan" -> a > b [] op = "greaterThanEq" -> a >= b
      [] op = "always" -> TRUE

Operate(op, a, b) ==
    CASE op = "add" -> a + b [] op = "sub" -> a - b
      [] OTHER -> BoolValue(Compare(op, a, b))

JumpTaken(memory, row) ==
    IF Len(row.op) = 1 THEN Compare(row.op[1].name, 0, 0)
    ELSE Compare(row.op[1].name, Read(memory, row.op[2]), Read(memory, row.op[3]))

\* The operands of a program that name a memory cell.
Cells(rows) ==
    UNION {{row.op[k] : k \in 2..Len(row.op)} : row \in {rows[a] : a \in 1..Len(rows)}}
        \ {Value(v) : v \in {"0", "1", "2", "3", "add", "sub"}}

\* The variables a program may read before it writes them.
Inputs(rows) == {c \in Cells(rows) : c.t = "NormalVariable" /\ c.name \in {"x", "i", "n"}}

(***************************************************************************)
(* The statements that are lowered.                                        *)
(***************************************************************************)
SetY == AssignStmt(<<Ident("y")>>, ":=", <<BasicLit("1")>>)
CallY == AssignStmt(<<Ident("y")>>, "=", <<CallExpr>>)
SetI == AssignStmt(<<Ident("i")>>, ":=", <<BasicLit("0")>>)
IncI == IncDecStmt(Ident("i"), "++")
DecI == IncDecStmt(Ident("i"), "--")
IncIndex == IncDecStmt(IndexExpr, "++")
DecIndex == IncDecStmt(IndexExpr, "--")
IncLit == IncDecStmt(BasicLit("1"), "++")

Simple ==
    {SetY, CallY, SetI, IncI, DecI, IncIndex, DecIndex, IncLit, GoStmt,
     ExprStmt(CallExpr), ExprStmt(IndexExpr),
     AssignStmt(<<Ident("y"), Ident("i")>>, ":=", <<CallExpr>>),
     AssignStmt(<<Ident("y"), IndexExpr>>, "=", <<CallExpr>>),
     AssignStmt(<<Ident("y"), Ident("i")>>, ":=", <<BasicLit("1"), CallExpr>>),
     AssignStmt(<<Ident("y"), Ident("i")>>, ":=", <<BasicLit("1"), IndexExpr>>),
     AssignStmt(<<Ident("y"), Ident("i"), Ident("x")>>, ":=", <<BasicLit("1"), BasicLit("2")>>),
     AssignStmt(<<Ident("y")>>, "+=", <<BasicLit("1")>>),
     AssignStmt(<<IndexExpr>>, "=", <<BasicLit("1")>>),
     AssignStmt(<<Ident("y")>>, "=", <<BinaryExpr(Ident("x"), "+", BasicLit("1"))>>),
     ReturnStmt(<<>>), ReturnStmt(<<Ident("x")>>), ReturnStmt(<<BasicLit("1")>>),
     ReturnStmt(<<CallExpr>>), ReturnStmt(<<IndexExpr>>),
     ReturnStmt(<<Ident("x"), Ident("y")>>)}

\* The blocks of at most MaxBlockLen statements taken from a set.
BlocksOf(elems) ==
    {BlockStmt(list) : list \in UNION {[1..k -> elems] : k \in 0..MaxBlockLen}}

Blocks == BlocksOf({SetY, CallY, IncI, GoStmt})
ThenBlocks == BlocksOf({SetY, CallY, GoStmt})
ElseBlocks == BlocksOf({IncI, GoStmt})

CondX == Ident("x")
CondLess == BinaryExpr(Ident("i"), "<", Ident("n"))

IfConds == {CondX, CallExpr, IndexExpr, BinaryExpr(Ident("x"), "==", BasicLit("1"))}
IfInits == {Nil, SetY, CallY, GoStmt}

\* Conditionals over every then-block and else-branch, and over every
\* initializer and condition.
Ifs ==
    {IfStmt(Nil, CondX, body, else) : body \in ThenBlocks, else \in {Nil} \cup ElseBlocks}
    \cup {IfStmt(init, cond, BlockStmt(<<CallY>>), else) :
            init \in IfInits, cond \in IfConds, else \in {Nil, BlockStmt(<<IncI>>)}}

ForInits == {SetI, Nil, GoStmt, IncIndex, AssignStmt(<<Ident("i")>>, ":=", <<BasicLit("2")>>)}
ForConds ==
    {CondLess, Nil, CondX, CallExpr,
     BinaryExpr(Ident("i"), "<", BasicLit("2")),
     BinaryExpr(Ident("i"), "!=", Ident("n")),
     BinaryExpr(BasicLit("1"), ">=", Ident("n")),
     BinaryExpr(Ident("i"), "&&", Ident("n")),
     BinaryExpr(Ident("i"), "+", Ident("n")),
     BinaryExpr(Ident("i"), "<", BinaryExpr(Ident("n"), "+", BasicLit("1"))),
     BinaryExpr(CallExpr, "<", Ident("n")),
     BinaryExpr(IndexExpr, "<", CallExpr)}
ForPosts == {IncI, DecI, GoStmt, Nil}
ForBodies ==
    ThenBlocks \cup
    {BlockStmt(<<BlockStmt(<<>>)>>),
     BlockStmt(<<ForStmt(SetI, CondLess, IncI, BlockStmt(<<>>))>>),
     BlockStmt(<<BlockStmt(<<>>), SetY>>)}

\* Loops over every initializer and condition (with an empty and a
\* one-statement body), and over every post-statement and body.
Fors ==
    {ForStmt(init, cond, IncI, body) :
        init \in ForInits, cond \in ForConds,
        body \in {BlockStmt(<<>>), BlockStmt(<<SetY>>)}}
    \cup {ForStmt(SetI, CondLess, post, body) : post \in ForPosts, body \in ForBodies}
    \cup {ForStmt(GoStmt, CondX, GoStmt, BlockStmt(<<>>)),
          ForStmt(IncIndex, CondLess, DecIndex, BlockStmt(<<>>))}

\* Compound statements nested in one another.
IfNoElse == IfStmt(Nil, CondX, BlockStmt(<<SetY>>), Nil)
IfElse == IfStmt(Nil, CondX, BlockStmt(<<CallY>>), BlockStmt(<<IncI>>))
IfCall == IfStmt(Nil, CallExpr, BlockStmt(<<SetY>>), Nil)
ForLoop == ForStmt(SetI, CondLess, IncI, BlockStmt(<<CallY>>))
ForEmpty == ForStmt(SetI, CondLess, IncI, BlockStmt(<<>>))
Inner == {IfNoElse, IfElse, IfCall, ForLoop, ForEmpty, GoStmt, SetY}

Nested ==
    {IfStmt(Nil, CondX, BlockStmt(<<a>>), else) :
        a \in Inner, else \in {Nil, IfNoElse, IfElse} \cup {BlockStmt(<<b>>) : b \in Inner}}
    \cup {ForStmt(SetI, CondLess, IncI, BlockStmt(<<a>>)) : a \in Inner}
    \cup {BlockStmt(<<a, b>>) : a \in Inner, b \in Inner}
    \cup {BlockStmt(<<a, BlockStmt(<<b, SetY>>)>>) : a \in Inner, b \in Inner}

Statements == Simple \cup Blocks \cup Ifs \cup Fors \cup Nested

(***************************************************************************)
(* The state: the statement handed to the lowering, what the lowering      *)
(* returned, the linearized program, and the machine that runs it.         *)
(***************************************************************************)
VARIABLES statement, result, program, memory, pc, trace, phase

vars == <<statement, result, program, memory, pc, trace, phase>>

NoResult == [kind |-> "none", err |-> "", instrs |-> <<>>, lowered |-> {}]

Init ==
    /\ statement \in Statements
    /\ result = NoResult
    /\ program = <<>>
    /\ memory = <<>>
    /\ pc = 0
    /\ trace = <<>>
    /\ phase = "parsed"

\* statementToMLOG(statement, options)
Lower ==
    /\ phase = "parsed"
    /\ result' = statementToMLOG(statement, <<>>)
    /\ phase' = IF result'.kind = "ok" THEN "lowered" ELSE "failed"
    /\ UNCHANGED <<statement, program, memory, pc, trace>>

\* The returned list is given addresses and loaded; the variables the
\* program reads hold any values, every other cell holds 0.
Load ==
    /\ phase = "lowered"
    /\ program' = Linearize(result.instrs)
    /\ \E given \in [Inputs(program') -> 0..MaxVal] :
          memory' = [c \in Cells(program') |-> IF c \in DOMAIN given THEN given[c] ELSE 0]
    /\ pc' = 0
    /\ phase' = "running"
    /\ UNCHANGED <<statement, result, trace>>

Running == phase = "running" /\ Len(trace) < MaxSteps
AtRow == pc \in 0..(Len(program) - 1)
Row == program[pc + 1]
Logged == Append(trace, [pc |-> pc, memory |-> memory])

\* set, op and the rows that touch no variable
ExecPlain ==
    /\ Running /\ AtRow /\ Row.kind = "MLOG" /\ Row.op[1].name # "read"
    /\ memory' =
          CASE Row.op[1].name = "set" ->
                  [memory EXCEPT ![Row.op[2]] = Read(memory, Row.op[3])]
            [] Row.op[1].name = "op" ->
                  [memory EXCEPT ![Row.op[3]] =
                      Operate(Row.op[2].name, Read(memory, Row.op[4]), Read(memory, Row.op[5]))]
            [] OTHER -> memory
    /\ pc' = pc + 1
    /\ trace' = Logged
    /\ UNCHANGED <<statement, result, program, phase>>

\* the results of a call arrive in its destinations
ExecRead ==
    /\ Running /\ AtRow /\ Row.kind = "MLOG" /\ Row.op[1].name = "read"
    /\ \E got \in [{Row.op[k] : k \in 2..Len(Row.op)} -> 0..MaxVal] :
          memory' = [c \in DOMAIN memory |-> IF c \in DOMAIN got THEN got[c] ELSE memory[c]]
    /\ pc' = pc + 1
    /\ trace' = Logged
    /\ UNCHANGED <<statement, result, program, phase>>

ExecJump ==
    /\ Running /\ AtRow /\ Row.kind = "MLOGJump"
    /\ pc' = IF JumpTaken(memory, Row) THEN Row.target ELSE pc + 1
    /\ trace' = Logged
    /\ UNCHANGED <<statement, result, program, memory, phase>>

\* the trampoline hands control back to the caller
ExecReturn ==
    /\ Running /\ AtRow /\ Row.kind = "MLOGTrampolineBack"
    /\ phase' = "returned"
    /\ trace' = Logged
    /\ UNCHANGED <<statement, result, program, memory, pc>>

\* control left the rows of the statement
Finish ==
    /\ phase = "running" /\ ~AtRow
    /\ phase' = "done"
    /\ UNCHANGED <<statement, result, program, memory, pc, trace>>

Next == Lower \/ Load \/ ExecPlain \/ ExecRead \/ ExecJump \/ ExecReturn \/ Finish

Spec == Init /\ [][Next]_vars

(***************************************************************************)
(* Vocabulary of the properties.                                           *)
(***************************************************************************)
IsPrefix(p, q) == Len(p) <= Len(q) /\ SubSeq(q, 1, Len(p)) = p
Addresses == 0..(Len(program) - 1)
\* The addresses of the rows emitted by the lowering of the node at path p.
Region(p) == {a \in Addresses : IsPrefix(p, program[a + 1].owner)}
\* The address of the (single-row) instruction with this identity.
AddrOf(id) == CHOOSE a \in Addresses : program[a + 1].owner = id
Emitted(id) == \E a \in Addresses : program[a + 1].owner = id
First(S) == CHOOSE a \in S : \A b \in S : a <= b
Last(S) == CHOOSE a \in S : \A b \in S : b <= a
Parent(id) == SubSeq(id, 1, Len(id) - 1)

\* The addresses control was at, in order, the current one last.
Visited == [k \in 1..(Len(trace) + 1) |-> IF k <= Len(trace) THEN trace[k].pc ELSE pc]
Steps == 1..Len(trace)
RowAt(k) == program[trace[k].pc + 1]
TracePcs == [k \in Steps |-> trace[k].pc]
Lowered == phase # "parsed"

\* The node of a statement at a path.
RECURSIVE NodeAt(_, _)
NodeAt(stmt, path) ==
    IF path = <<>> THEN stmt
    ELSE LET c == Head(path) IN
         CASE stmt.type = "BlockStmt" -> NodeAt(stmt.List[c], Tail(path))
           [] stmt.type = "IfStmt" ->
                NodeAt(CASE c = 1 -> stmt.Init [] c = 3 -> stmt.Body [] c = 4 -> stmt.Else,
                       Tail(path))
           [] stmt.type = "ForStmt" ->
                NodeAt(CASE c = 1 -> stmt.Init [] c = 2 -> stmt.Body [] c = 3 -> stmt.Post,
                       Tail(path))

\* The Go meaning of a comparison of two simple operands.
GoOperand(memory_, expr) ==
    IF expr.type = "Ident" THEN memory_[NormalVariable(expr.Name)] ELSE ParseValue(expr.Value)
GoHolds(memory_, cond) ==
    LET a == GoOperand(memory_, cond.X)
        b == GoOperand(memory_, cond.Y)
    IN  CASE cond.Op = "<" -> a < b [] cond.Op = "<=" -> a <= b
          [] cond.Op = ">" -> a > b [] cond.Op = ">=" -> a >= b
          [] cond.Op = "==" -> a = b [] cond.Op = "!=" -> a # b

(***************************************************************************)
(* C1: if/else.  When the conditional jump of an if with an else runs with *)
(* the condition operand true, control goes to the first row of the then   *)
(* code; from the then code control only moves on inside the then code or  *)
(* to the jump placed after it, and that jump goes to the address just     *)
(* after the last row of the else code, so no else row runs.  With the     *)
(* operand false, control goes through the skip jump to the first row of   *)
(* the else code, and no then row runs.                                    *)
(***************************************************************************)
C1_IfElseControl ==
    \A k \in Steps :
        LET row == RowAt(k)
            p == Parent(row.owner)
            then == Region(p \o <<3>>)
            else == Region(p \o <<4>>)
        IN  /\ (row.comment = "Jump to if block if true" /\ Emitted(p \o <<7>>)) =>
                IF Read(trace[k].memory, row.op[2]) = 1
                THEN Visited[k + 1] = First(then)
                ELSE /\ Visited[k + 1] = AddrOf(p \o <<6>>)
                     /\ k + 1 <= Len(trace) => Visited[k + 2] = First(else)
            /\ row.comment = "Jump to after else block" =>
                /\ Visited[k + 1] = Last(Region(p \o <<4>>)) + 1
                /\ Visited[k + 1] \notin Region(p \o <<4>>)
            /\ \A j \in Steps :
                (/\ row.comment = "Jump to if block if true" /\ Emitted(p \o <<7>>)
                 /\ trace[j].pc \in then /\ ~(phase = "returned" /\ j = Len(trace)))
                => Visited[j + 1] \in then \cup {AddrOf(p \o <<7>>)}

\* An if/else ran with the condition true: the two rows of the then code,
\* the jump after them, and then the end, past the else row.
C1_Witness ==
    /\ statement = IfElse
    /\ phase = "done"
    /\ trace[1].memory[NormalVariable("x")] = 1
    /\ TracePcs = <<0, 2, 3, 4>>
    /\ pc = 6

(***************************************************************************)
(* C2: if without else.  With the condition operand true the conditional   *)
(* jump goes to the first row of the then code, and the skip jump runs     *)
(* only by falling through from a conditional jump whose operand was false;*)
(* with the operand false control goes through the skip jump to the        *)
(* address just after the last row of the then code, however many rows     *)
(* that code has.                                                          *)
(***************************************************************************)
C2_IfControl ==
    \A k \in Steps :
        LET row == RowAt(k)
            p == Parent(row.owner)
            then == Region(p \o <<3>>)
        IN  /\ (row.comment = "Jump to if block if true" /\ ~Emitted(p \o <<7>>)) =>
                IF Read(trace[k].memory, row.op[2]) = 1
                THEN Visited[k + 1] = First(then)
                ELSE /\ Visited[k + 1] = AddrOf(p \o <<6>>)
                     /\ k + 1 <= Len(trace) =>
                            /\ Visited[k + 2] = Last(then) + 1
                            /\ Visited[k + 2] \notin then
            /\ (row.comment = "Jump to after if block" /\ ~Emitted(p \o <<7>>)) =>
                /\ k > 1
                /\ trace[k - 1].pc = AddrOf(p \o <<5>>)
                /\ Read(trace[k - 1].memory, RowAt(k - 1).op[2]) # 1

\* An if whose then code has three rows ran with the condition false.
C2_Witness ==
    /\ statement = IfStmt(Nil, CondX, BlockStmt(<<SetY, CallY>>), Nil)
    /\ phase = "done"
    /\ memory[NormalVariable("x")] = 0
    /\ memory[NormalVariable("y")] = 0
    /\ TracePcs = <<0, 1>>
    /\ pc = 5

(***************************************************************************)
(* C3: for loop.  The rows of a lowered loop run in the order initializer, *)
(* body, post-statement, trailing jump, with nothing deciding whether the  *)
(* body is entered; the trailing jump goes back to the first row of the    *)
(* body exactly when the Go condition holds at that moment and leaves the  *)
(* loop otherwise; control never returns to the initializer; and whenever  *)
(* the trailing jump is reached the body has already run.                  *)
(***************************************************************************)
ForLowered == Lowered /\ statement.type = "ForStmt" /\ result.kind = "ok" /\ program # <<>>

C3_ForControl ==
    (ForLowered /\ phase # "lowered") =>
        LET init == Region(<<1>>)
            body == Region(<<2>>)
            post == Region(<<3>>)
            jump == AddrOf(<<4>>)
            leave(S, next) == \A k \in Steps :
                (trace[k].pc \in S /\ ~(phase = "returned" /\ k = Len(trace)))
                    => Visited[k + 1] \in S \cup {next}
        IN  /\ Visited[1] = 0
            /\ init # {} => First(init) = 0
            /\ leave(init, First(body))
            /\ leave(body, First(post))
            /\ leave(post, jump)
            /\ \A k \in Steps :
                /\ trace[k].pc = jump =>
                    /\ Visited[k + 1] = IF GoHolds(trace[k].memory, statement.Cond)
                                        THEN First(body) ELSE Len(program)
                    /\ \E m \in 1..(k - 1) : trace[m].pc = First(body)
                /\ trace[k].pc \notin init => Visited[k + 1] \notin init

\* for i := 0; i < n; i++ { y := 1 } with n = 0: the condition is false
\* after the initializer, and the body and the post-statement have run once.
C3_Witness ==
    /\ statement = ForStmt(SetI, CondLess, IncI, BlockStmt(<<SetY>>))
    /\ phase = "done"
    /\ memory[NormalVariable("n")] = 0
    /\ memory[NormalVariable("y")] = 1
    /\ memory[NormalVariable("i")] = 1
    /\ TracePcs = <<0, 1, 2, 3>>
    /\ pc = 4

(***************************************************************************)
(* C4: a for loop with an empty body lowers to the empty list without an   *)
(* error, and neither its initializer nor its post-statement is lowered.   *)
(***************************************************************************)
C4_EmptyBodyFor ==
    (Lowered /\ statement.type = "ForStmt" /\ Len(statement.Body.List) = 0) =>
        /\ result.kind = "ok"
        /\ result.instrs = <<>>
        /\ result.lowered = {<<>>}

\* An empty loop whose initializer and post-statement could not be lowered.
C4_Witness ==
    /\ statement = ForStmt(IncIndex, CondLess, DecIndex, BlockStmt(<<>>))
    /\ phase = "done"
    /\ program = <<>>

(***************************************************************************)
(* C5: `if x { y := 1 }` lowers to the conditional jump into the block,    *)
(* the unconditional skip jump and the block's instruction, in that order; *)
(* the skip jump resolves to the address after the block's row.            *)
(***************************************************************************)
IfOrder ==
    /\ program[1].comment = "Jump to if block if true"
    /\ program[1].op = <<Value("equal"), NormalVariable("x"), Value("1")>>
    /\ program[2].comment = "Jump to after if block"
    /\ program[2].op = <<Value("always")>>
    /\ program[3].op = <<Value("set"), NormalVariable("y"), Value("1")>>
    /\ program[1].target = 2
    /\ program[2].target = Len(program)

\* C5 as claimed: the three instructions make 4 output rows.
C5_FourRows ==
    (statement = IfNoElse /\ phase = "running") => (Len(program) = 4 /\ IfOrder)

\* C5 amended: they make exactly 3 output rows.
C5_ThreeRows ==
    (statement = IfNoElse /\ phase = "running") => (Len(program) = 3 /\ IfOrder)

C5_Witness ==
    /\ statement = IfNoElse
    /\ phase = "running"
    /\ result.kind = "ok"
    /\ Len(result.instrs) = 3

(***************************************************************************)
(* C6: an increment/decrement of anything but an identifier ends in a      *)
(* lowering error with no instructions; of an identifier, in the single    *)
(* instruction variable := variable + 1 or variable - 1.                   *)
(***************************************************************************)
C6_IncDec ==
    (Lowered /\ statement.type = "IncDecStmt") =>
        IF statement.X.type = "Ident"
        THEN /\ result.kind = "ok"
             /\ Len(result.instrs) = 1
             /\ result.instrs[1].Statement =
                    <<<<Value("op"), Value(IF statement.Tok = "++" THEN "add" ELSE "sub"),
                        NormalVariable(statement.X.Name), NormalVariable(statement.X.Name),
                        Value("1")>>>>
        ELSE result.kind = "error" /\ result.instrs = <<>>

(***************************************************************************)
(* C7: a for loop whose condition is not a binary comparison, uses an      *)
(* operator outside the jump table, or has a side that is neither literal  *)
(* nor identifier, returns a lowering error and no instructions.           *)
(***************************************************************************)
BadCondition(cond) ==
    \/ cond.type # "BinaryExpr"
    \/ cond.Op \notin {"==", "!=", "<", "<=", ">", ">="}
    \/ cond.X.type \notin {"BasicLit", "Ident"}
    \/ cond.Y.type \notin {"BasicLit", "Ident"}

\* C7 as claimed: for any loop.
C7_AnyLoop ==
    (Lowered /\ statement.type = "ForStmt" /\ BadCondition(statement.Cond)) =>
        (result.kind = "error" /\ result.instrs = <<>>)

\* C7 amended: for a loop with at least one body statement no instructions
\* are returned; the lowering ends in an error, or, when the lowering of
\* the initializer panics, in that panic.
C7_NonEmptyLoop ==
    (/\ Lowered /\ statement.type = "ForStmt" /\ BadCondition(statement.Cond)
     /\ Len(statement.Body.List) > 0) =>
        /\ result.instrs = <<>>
        /\ result.kind =
              IF statementToMLOG(statement.Init, <<1>>).kind = "panic" THEN "panic" ELSE "error"

\* A loop with a body and a compound right side, after a good initializer.
C7_Witness ==
    /\ statement = ForStmt(SetI, BinaryExpr(Ident("i"), "<",
                                 BinaryExpr(Ident("n"), "+", BasicLit("1"))),
                           IncI, BlockStmt(<<SetY>>))
    /\ phase = "failed"
    /\ result.err = "unknown right side expression type"

(***************************************************************************)
(* C8: when the lowering of a nested statement that was entered returns an *)
(* error, every enclosing statement returns that same error and no         *)
(* instructions, and no later sibling of the failed statement is entered;  *)
(* the same for the pairs of an assignment.                                *)
(***************************************************************************)
Prefixes(q) == {SubSeq(q, 1, n) : n \in 0..Len(q)}
LaterSibling(q, w) ==
    /\ q # <<>> /\ Len(w) >= Len(q)
    /\ SubSeq(w, 1, Len(q) - 1) = Parent(q)
    /\ w[Len(q)] > q[Len(q)]
PairsAssign(stmt) ==
    /\ stmt.type = "AssignStmt" /\ Len(stmt.Lhs) = Len(stmt.Rhs)
    /\ stmt.Tok \in {"=", ":="}
    /\ \A i \in 1..Len(stmt.Lhs) : stmt.Lhs[i].type = "Ident"
PairResult(stmt, i) ==
    expressionToMLOG(<<NormalVariable(stmt.Lhs[i].Name)>>, stmt.Rhs[i], <<i>>)

C8_ErrorPropagation ==
    Lowered =>
        /\ \A q \in result.lowered :
            LET r == statementToMLOG(NodeAt(statement, q), q) IN
            r.kind = "error" =>
                /\ result.kind = "error" /\ result.err = r.err /\ result.instrs = <<>>
                /\ \A e \in Prefixes(q) :
                    LET re == statementToMLOG(NodeAt(statement, e), e)
                    IN  re.kind = "error" /\ re.err = r.err /\ re.instrs = <<>>
                /\ \A w \in result.lowered : ~LaterSibling(q, w)
        /\ PairsAssign(statement) =>
            \A i \in 1..Len(statement.Lhs) :
                (/\ PairResult(statement, i).kind = "error"
                 /\ \A j \in 1..(i - 1) : PairResult(statement, j).kind = "ok")
                => (/\ result.kind = "error" /\ result.instrs = <<>>
                    /\ result.err = PairResult(statement, i).err)

\* A block in a block: the inner block fails on its first statement after
\* the outer block lowered a loop; the statement after the failure is not
\* entered.
C8_Witness ==
    /\ statement = BlockStmt(<<ForLoop, BlockStmt(<<GoStmt, SetY>>)>>)
    /\ phase = "failed"
    /\ result.err = "statement type not supported"
    /\ <<2, 1>> \in result.lowered
    /\ <<2, 2>> \notin result.lowered

(***************************************************************************)
(* C9: in a list returned without error no instruction occurs twice, every *)
(* jump references an instruction of the list, and every jump resolves to  *)
(* an address from the first row to one past the last row.                 *)
(***************************************************************************)
C9_JumpTargets ==
    (Lowered /\ result.kind = "ok") =>
        \A i \in 1..Len(result.instrs) :
            LET instr == result.instrs[i] IN
            /\ Cardinality(Holders(result.instrs, instr.id)) = 1
            /\ instr.kind = "MLOGJump" =>
                /\ Cardinality(Holders(result.instrs, instr.JumpTarget.Statement)) = 1
                /\ Resolve(result.instrs, instr.JumpTarget) \in 0..TotalSize(result.instrs)

\* A loop in the then-block of an if whose else is an if/else: seven jumps,
\* one of them retargeted.
C9_Witness ==
    /\ statement = IfStmt(Nil, CondX, BlockStmt(<<ForLoop>>), IfElse)
    /\ phase = "lowered"
    /\ Cardinality({i \in 1..Len(result.instrs) : result.instrs[i].kind = "MLOGJump"}) = 7
    /\ \E i \in 1..Len(result.instrs) :
          result.instrs[i].JumpTarget = StatementJumpTarget(<<7>>, TRUE)

(***************************************************************************)
(* C10: a for loop with at least one body statement and a supported        *)
(* initializer, condition, body and post-statement lowers to the lowered   *)
(* initializer, body and post-statement followed by one jump with the      *)
(* direct translation of the condition, back to the first instruction of   *)
(* the body, also when the body lowers to no instruction.                  *)
(***************************************************************************)
C10_ForShape ==
    LET init == statementToMLOG(statement.Init, <<1>>)
        body == statementToMLOG(statement.Body, <<2>>)
        post == statementToMLOG(statement.Post, <<3>>)
        n == Len(result.instrs)
    IN  (/\ Lowered /\ statement.type = "ForStmt" /\ Len(statement.Body.List) > 0
         /\ ~BadCondition(statement.Cond)
         /\ init.kind = "ok" /\ body.kind = "ok" /\ post.kind = "ok") =>
            /\ result.kind = "ok"
            /\ n = Len(init.instrs) + Len(body.instrs) + Len(post.instrs) + 1
            /\ SubSeq(result.instrs, 1, n - 1) = init.instrs \o body.instrs \o post.instrs
            /\ result.instrs[n].kind = "MLOGJump"
            /\ result.instrs[n].Condition =
                  <<Value(jumpOperators[statement.Cond.Op]),
                    SimpleOperand(statement.Cond.X), SimpleOperand(statement.Cond.Y)>>
            /\ body.instrs # <<>> =>
                  result.instrs[n].JumpTarget = StatementJumpTarget(body.instrs[1].id, FALSE)

====
